---- MODULE Spec2Model ----
(***************************************************************************)
(* A model of ImageDataDeserializer (the image reader's deserializer) and  *)
(* of its TypedLabelGenerator.                                             *)
(*                                                                         *)
(* Text is modelled as sequences of one-character strings, so that the     *)
(* tab splitting of std::getline and the number parsing of std::stoi are   *)
(* computed character by character.  The map file is the sequence of its   *)
(* lines (what the outer std::getline(mapFile, line) loop yields).         *)
(*                                                                         *)
(* assert() is compiled out when NDEBUG is defined (the release flavor);   *)
(* the variable ndebug holds the flavor of the build under examination.    *)
(* Where the release flavor runs into undefined behaviour (an index past   *)
(* the end of a vector) the model chooses between the process crashing and *)
(* the access silently going through; ub records that this has happened.   *)
(***************************************************************************)
EXTENDS Integers, Sequences, FiniteSets, TLC

VARIABLES
    ndebug,            \* TRUE: release flavor, assert() expands to nothing
    configHelper,      \* what ImageConfigHelper(config) resolves: the input streams, the map file
    labelDimension,    \* m_labelSampleLayout->GetHeight()
    mapFile,           \* the lines of the map file at configHelper.GetMapPath()
    status,            \* "unconstructed", "ready", "failed", "aborted", "crashed"
    error,             \* the exception that left the constructor, or NoError
    m_imageSequences,  \* std::vector<ImageSequenceDescription>
    m_sequences,       \* TimelineP: pointers into m_imageSequences (as 0-based indices)
    m_labelData,       \* TypedLabelGenerator::m_labelData
    m_currentImages,   \* std::vector<cv::Mat>
    lastCall,          \* the caller's view of the last call: operation, arguments, return value
    ub,                \* TRUE once an out-of-bounds access has silently gone through
    \* SimpleEvaluator::Evaluate
    pc,                    \* "idle", "loop" (in the minibatch loop), "done", "failed", "crashed"
    m_net,                 \* the network: its EvaluationNodes() and FinalCriterionNodes()
    m_numMBsToShowResult,
    m_traceLevel,
    evalNodeNames,         \* the argument of Evaluate
    evalNodes,
    evalResults,
    evalResultsLastMBs,
    totalEpochSamples,
    numMBsRun,
    numSamplesLastMBs,
    lastMBsRun,
    minibatches,           \* numSamplesWithLabel of the minibatches the reader has delivered
    displayed,             \* the calls of DisplayEvalStatistics, in order
    returned               \* the vector Evaluate returns

deserializerVars ==
    <<ndebug, configHelper, labelDimension, mapFile, status, error, m_imageSequences,
      m_sequences, m_labelData, m_currentImages, lastCall, ub>>

evaluatorVars ==
    <<pc, m_net, m_numMBsToShowResult, m_traceLevel, evalNodeNames, evalNodes, evalResults,
      evalResultsLastMBs, totalEpochSamples, numMBsRun, numSamplesLastMBs, lastMBsRun,
      minibatches, displayed, returned>>

vars == <<deserializerVars, evaluatorVars>>

members == <<m_imageSequences, m_sequences, m_labelData, m_currentImages>>

(***************************************************************************)
(* Bounds of the model.                                                    *)
(***************************************************************************)
MaxLines == 2

MaxLabelDim == 3

MaxBatch == 2

MaxNames == 3

MaxDefaultNodes == 2

MaxMBs == 3

MaxSamples == 1

MaxShow == 2

(***************************************************************************)
(* Inputs.                                                                 *)
(***************************************************************************)
TAB == "\t"

Digits == <<"0", "1", "2", "3", "4", "5", "6", "7", "8", "9">>

RECURSIVE Join(_)
\* The fields of a line, separated by tabs.
Join(fs) ==
    IF Len(fs) = 0 THEN << >>
    ELSE IF Len(fs) = 1 THEN fs[1]
    ELSE fs[1] \o <<TAB>> \o Join(Tail(fs))

\* The rows a map file is made of, each the sequence of its fields: an empty
\* line, a path alone, a path and a class (0, 2, or a word that is no number),
\* and a row of three fields.
Rows ==
    { << >>,
      << <<"a">> >>,
      << <<"a">>, <<"0">> >>,
      << <<"b">>, <<"2">> >>,
      << <<"a">>, <<"x">> >>,
      << <<"b">>, <<"2">>, <<"x">> >> }

Lines == { Join(r) : r \in Rows }

MapFiles == UNION { [1..n -> Lines] : n \in 0..MaxLines }

\* The heights of the label layout: one that holds class 2, one that does not.
LabelDimensions == (MaxLabelDim - 1)..MaxLabelDim

MapPath == "map.txt"

\* The configurations: the one of two streams with a float label stream and a
\* map file that opens, and those that differ from it in one respect: a double
\* label stream, a label stream of another element type, one or three declared
\* streams, a map file that cannot be opened.
ValidConfig == [inputs |-> 2, labelElementType |-> "et_float", mapFileOpens |-> TRUE]

Configs ==
    { ValidConfig,
      [ValidConfig EXCEPT !.labelElementType = "et_double"],
      [ValidConfig EXCEPT !.labelElementType = "et_atom"],
      [ValidConfig EXCEPT !.inputs = 1],
      [ValidConfig EXCEPT !.inputs = 3],
      [ValidConfig EXCEPT !.mapFileOpens = FALSE] }

\* What inputs[index] finds past the end of inputs when the assert on
\* inputs.size() is compiled out: a stream of a supported or of another type.
GarbageElementTypes == {"et_float", "et_atom"}

NULL == 0

LabelAddr == "m_labelData"

NoError == [kind |-> "none", path |-> "", line |-> 0]

NoCall == [op |-> "none", arg |-> << >>, returned |-> FALSE, value |-> << >>]

(***************************************************************************)
(* std::stringstream and std::getline(ss, field, '\t').                    *)
(***************************************************************************)
\* std::stringstream ss{ line }: nothing read yet, no state bit set.
StringStream(line) == [buf |-> line, pos |-> 1, good |-> TRUE]

\* The position of the first tab at or after ss.pos, or 0 when there is none.
NextTab(ss) ==
    LET tabs == { k \in ss.pos..Len(ss.buf) : ss.buf[k] = TAB }
    IN  IF tabs = {} THEN 0 ELSE CHOOSE k \in tabs : \A j \in tabs : k <= j

\* std::getline(ss, str, '\t'): fails at once on a stream that is no longer
\* good; otherwise extracts up to and including the next tab (the tab is
\* dropped), or up to the end of the buffer, which sets eofbit.  It fails when
\* it extracted nothing at all (the tab counts as extracted).
GetLine(ss) ==
    IF ~ss.good
    THEN [ok |-> FALSE, str |-> << >>, ss |-> ss]
    ELSE LET k == NextTab(ss)
         IN  IF k # 0
             THEN [ok  |-> TRUE,
                   str |-> SubSeq(ss.buf, ss.pos, k - 1),
                   ss  |-> [ss EXCEPT !.pos = k + 1]]
             ELSE [ok  |-> ss.pos <= Len(ss.buf),
                   str |-> SubSeq(ss.buf, ss.pos, Len(ss.buf)),
                   ss  |-> [ss EXCEPT !.pos = Len(ss.buf) + 1, !.good = FALSE]]

(***************************************************************************)
(* std::stoi(clsId).  The texts of Fields carry no white space and no      *)
(* sign, and stay far below INT_MAX; what is modelled is the conversion of *)
(* the longest prefix of decimal digits, and std::invalid_argument when    *)
(* that prefix is empty.                                                   *)
(***************************************************************************)
IsDigit(c) == \E d \in 1..Len(Digits) : Digits[d] = c

DigitValue(c) == (CHOOSE d \in 1..Len(Digits) : Digits[d] = c) - 1

RECURSIVE DigitPrefix(_)
DigitPrefix(str) ==
    IF Len(str) = 0 \/ ~IsDigit(Head(str)) THEN << >>
    ELSE <<Head(str)>> \o DigitPrefix(Tail(str))

RECURSIVE DecimalValue(_)
DecimalValue(ds) ==
    IF Len(ds) = 0 THEN 0
    ELSE 10 * DecimalValue(SubSeq(ds, 1, Len(ds) - 1)) + DigitValue(ds[Len(ds)])

stoi(str) ==
    LET ds == DigitPrefix(str)
    IN  IF Len(ds) = 0
        THEN [ok |-> FALSE, value |-> 0]
        ELSE [ok |-> TRUE, value |-> DecimalValue(ds)]

(***************************************************************************)
(* ImageDataDeserializer::CreateSequenceDescriptions.                      *)
(***************************************************************************)
\* The mutation of Description that puts the whole map file into chunk 0.
Description_OneChunk(cline, imgPath, classId) ==
    [id              |-> cline,
     chunkId         |-> 0,
     path            |-> imgPath,
     classId         |-> classId,
     numberOfSamples |-> 1,
     isValid         |-> TRUE]

\* The description the loop body pushes for line cline.
Description(cline, imgPath, classId) ==
    [id              |-> cline,
     chunkId         |-> cline,
     path            |-> imgPath,
     classId         |-> classId,
     numberOfSamples |-> 1,
     isValid         |-> TRUE]

RECURSIVE ReadMapFile(_, _, _, _, _)
\* The loop over the lines of the map file, from line cline (0-based) on, with
\* the descriptions pushed so far.  It ends normally, with RuntimeError or the
\* exception of std::stoi, or in abort() on a failed assert.
ReadMapFile(lines, cline, labelDim, release, pushed) ==
    IF cline >= Len(lines)
    THEN [outcome |-> "ok", error |-> NoError, imageSequences |-> pushed]
    ELSE LET first  == GetLine(StringStream(lines[cline + 1]))
             second == GetLine(first.ss)
             cls    == stoi(second.str)
         IN  IF ~first.ok \/ ~second.ok
             THEN [outcome |-> "throw",
                   error |-> [kind |-> "RuntimeError: Invalid map file format",
                              path |-> MapPath, line |-> cline],
                   imageSequences |-> pushed]
             ELSE IF ~cls.ok
             THEN [outcome |-> "throw",
                   error |-> [kind |-> "std::invalid_argument", path |-> "", line |-> 0],
                   imageSequences |-> pushed]
             ELSE IF ~release /\ ~(cls.value < labelDim)
             THEN [outcome |-> "abort", error |-> NoError, imageSequences |-> pushed]
             ELSE ReadMapFile(lines, cline + 1, labelDim, release,
                              Append(pushed, Description(cline, first.str, cls.value)))

CreateSequenceDescriptions(lines, labelDim, release) ==
    LET read == ReadMapFile(lines, 0, labelDim, release, << >>)
    IN  [outcome        |-> read.outcome,
         error          |-> read.error,
         imageSequences |-> read.imageSequences,
         sequences      |-> IF read.outcome = "ok"
                            THEN [i \in 1..Len(read.imageSequences) |-> i - 1]
                            ELSE << >>]

\* TypedLabelGenerator(dimensions): m_labelData.resize(dimensions, 0).
TypedLabelGenerator(dimensions) == [i \in 1..dimensions |-> 0]

\* GetSequenceDescriptions: the timeline, each pointer followed to its description.
GetSequenceDescriptions == [i \in 1..Len(m_sequences) |-> m_imageSequences[m_sequences[i] + 1]]

\* No evaluator is at work.
NoEvaluator ==
    /\ pc = "idle"
    /\ m_net = [EvaluationNodes |-> << >>, FinalCriterionNodes |-> << >>]
    /\ m_numMBsToShowResult = 0
    /\ m_traceLevel = 0
    /\ evalNodeNames = << >>
    /\ evalNodes = << >>
    /\ evalResults = << >>
    /\ evalResultsLastMBs = << >>
    /\ totalEpochSamples = 0
    /\ numMBsRun = 0
    /\ numSamplesLastMBs = 0
    /\ lastMBsRun = 0
    /\ minibatches = << >>
    /\ displayed = << >>
    /\ returned = << >>

(***************************************************************************)
(* The initial state: a build flavor, a configuration and a map file; no   *)
(* deserializer has been constructed.                                      *)
(***************************************************************************)
Init ==
    /\ ndebug \in BOOLEAN
    /\ configHelper \in Configs
    /\ labelDimension \in LabelDimensions
    /\ mapFile \in MapFiles
    /\ status = "unconstructed"
    /\ error = NoError
    /\ m_imageSequences = << >>
    /\ m_sequences = << >>
    /\ m_labelData = << >>
    /\ m_currentImages = << >>
    /\ lastCall = NoCall
    /\ ub = FALSE
    /\ NoEvaluator

\* The constructor up to its end, given what undefined behaviour does (env):
\* assert(inputs.size() == 2); inputs[label index] and inputs[feature index],
\* one of which lies past the end when fewer than two streams are declared;
\* the choice of the label generator by label->elementType, RuntimeError for a
\* type that is neither et_float nor et_double; then CreateSequenceDescriptions,
\* which raises RuntimeError when the map file cannot be opened.
Constructor(env) ==
    LET pastEnd     == configHelper.inputs < 2
        elementType == IF pastEnd THEN env.garbage ELSE configHelper.labelElementType
        none        == [outcome |-> "abort", error |-> NoError, imageSequences |-> << >>,
                        sequences |-> << >>, labelData |-> << >>, ub |-> FALSE]
    IN  IF configHelper.inputs # 2 /\ ~ndebug THEN none
        ELSE IF pastEnd /\ env.crash THEN [none EXCEPT !.outcome = "crash"]
        ELSE IF elementType \notin {"et_float", "et_double"}
        THEN [none EXCEPT !.outcome = "throw",
                          !.error = [kind |-> "RuntimeError: Unsupported label element type",
                                     path |-> "", line |-> 0],
                          !.ub = pastEnd]
        ELSE IF ~configHelper.mapFileOpens
        THEN [none EXCEPT !.outcome = "throw",
                          !.error = [kind |-> "RuntimeError: Could not open for reading",
                                     path |-> MapPath, line |-> 0],
                          !.labelData = TypedLabelGenerator(labelDimension),
                          !.ub = pastEnd]
        ELSE LET created == CreateSequenceDescriptions(mapFile, labelDimension, ndebug)
             IN  [outcome        |-> created.outcome,
                  error          |-> created.error,
                  imageSequences |-> created.imageSequences,
                  sequences      |-> created.sequences,
                  labelData      |-> TypedLabelGenerator(labelDimension),
                  ub             |-> pastEnd]

\* Undefined behaviour has a say in the constructor only when a stream is read
\* past the end of inputs, in the release flavor.
ConstructorEnvs ==
    IF ndebug /\ configHelper.inputs < 2
    THEN [crash : BOOLEAN, garbage : GarbageElementTypes]
    ELSE [crash : {FALSE}, garbage : {"et_float"}]

\* ImageDataDeserializer::ImageDataDeserializer(config).  An exception leaves
\* no object ("failed"); a failed assert ends the process ("aborted").
ImageDataDeserializer ==
    /\ status = "unconstructed"
    /\ \E env \in ConstructorEnvs : \E made \in {Constructor(env)} :
           /\ status' = CASE made.outcome = "ok"    -> "ready"
                          [] made.outcome = "throw" -> "failed"
                          [] made.outcome = "crash" -> "crashed"
                          [] OTHER                  -> "aborted"
           /\ error' = made.error
           /\ m_imageSequences' = made.imageSequences
           /\ m_sequences' = made.sequences
           /\ m_labelData' = made.labelData
           /\ ub' = made.ub
           /\ lastCall' = [op |-> "ImageDataDeserializer", arg |-> << >>,
                           returned |-> (made.outcome = "ok"), value |-> << >>]
    /\ UNCHANGED <<evaluatorVars, ndebug, configHelper, labelDimension, mapFile, m_currentImages>>

(***************************************************************************)
(* TypedLabelGenerator::GetLabelDataFor.                                   *)
(***************************************************************************)
\* The mutation of GetLabelDataFor that forgets std::fill.
GetLabelDataFor_NoFill(labelData, classId) ==
    IF classId < Len(labelData)
    THEN [labelData EXCEPT ![classId + 1] = 1]
    ELSE labelData

\* The buffer after std::fill(begin, end, 0) and m_labelData[classId] = 1.  A
\* classId past the end writes outside the buffer, which is left all 0.
GetLabelDataFor(labelData, classId) ==
    LET filled == [i \in 1..Len(labelData) |-> 0]
    IN  IF classId < Len(labelData)
        THEN [filled EXCEPT ![classId + 1] = 1]
        ELSE filled

(***************************************************************************)
(* ImageDataDeserializer::GetSequencesById.                                *)
(***************************************************************************)
\* What lies behind the end of m_imageSequences when an id past the end is
\* read in the release flavor: some description, of a class inside or outside
\* the label buffer.
Garbage ==
    { [id |-> 0, chunkId |-> 0, path |-> << >>, classId |-> c,
       numberOfSamples |-> 0, isValid |-> FALSE] : c \in {0, labelDimension} }

\* The address cv::imread and convertTo leave the pixels of a decoded image
\* at: the lowest address no retained image holds.
Alloc(images) ==
    LET live == { images[i].data : i \in 1..Len(images) }
    IN  CHOOSE a \in 1..(Len(images) + 1) : a \notin live /\ \A b \in 1..(a - 1) : b \in live

\* cv::imread(path, cv::IMREAD_COLOR) followed by the conversion to the
\* feature element type: a matrix holding the pixels of path at a fresh
\* address, or the empty matrix (no data) when path cannot be decoded.
imread(images, path, decodes) ==
    IF decodes
    THEN [data |-> Alloc(images), pixels |-> <<path>>]
    ELSE [data |-> NULL, pixels |-> << >>]

\* cv::Mat::isContinuous(): not set on an empty matrix.
isContinuous(mat) == mat.data # NULL

\* The mutation of ImageSequence that leaves numberOfSamples unset.
ImageSequence_NoSamples(cvImage, sequence) ==
    [data |-> cvImage.data, numberOfSamples |-> 0]

\* Sequence image: image.data = cvImage.ptr(), image.numberOfSamples.
ImageSequence(cvImage, sequence) ==
    [data |-> cvImage.data, numberOfSamples |-> sequence.numberOfSamples]

\* Sequence label: label.data is the pointer GetLabelDataFor returns, which is
\* the address of the generator's one buffer.
LabelSequence(sequence) ==
    [data |-> LabelAddr, numberOfSamples |-> sequence.numberOfSamples]

\* One iteration of the loop, for id, on the loop's state st = [status,
\* images, labelData, result, ub]; decodes tells whether the image file can
\* be decoded, and env what undefined behaviour does in this call: whether an
\* out-of-bounds access crashes, and what an out-of-bounds read finds.
LoopBody(st, id, decodes, env) ==
    LET inRange  == id < Len(m_imageSequences)
        sequence == IF inRange THEN m_imageSequences[id + 1] ELSE env.garbage
        cvImage  == imread(st.images, sequence.path, decodes)
        image    == ImageSequence(cvImage, sequence)
        inBuffer == sequence.classId < Len(st.labelData)
        label    == LabelSequence(sequence)
    IN  IF st.status # "ready" THEN st
        ELSE IF ~inRange /\ ~ndebug THEN [st EXCEPT !.status = "aborted"]
        ELSE IF ~inRange /\ env.crash THEN [st EXCEPT !.status = "crashed"]
        ELSE IF ~isContinuous(cvImage) /\ ~ndebug THEN [st EXCEPT !.status = "aborted"]
        ELSE IF ~inBuffer /\ env.crash
        THEN [st EXCEPT !.status = "crashed", !.images = Append(st.images, cvImage)]
        ELSE [status    |-> "ready",
              images    |-> Append(st.images, cvImage),
              labelData |-> GetLabelDataFor(st.labelData, sequence.classId),
              result    |-> Append(st.result, <<image, label>>),
              ub        |-> st.ub \/ ~inRange \/ ~inBuffer]

RECURSIVE Loop(_, _, _, _, _)
\* for (auto id : ids), from position i on.
Loop(st, ids, i, decodes, env) ==
    IF i > Len(ids) THEN st
    ELSE Loop(LoopBody(st, ids[i], decodes[i], env), ids, i + 1, decodes, env)

\* The call up to its return (or to the death of the process): the assert on
\* the batch, m_currentImages.clear(), then the loop.
GetSequencesByIdRun(ids, decodes, env) ==
    IF Len(ids) = 0 /\ ~ndebug
    THEN [status |-> "aborted", images |-> m_currentImages, labelData |-> m_labelData,
          result |-> << >>, ub |-> ub]
    ELSE Loop([status |-> "ready", images |-> << >>, labelData |-> m_labelData,
               result |-> << >>, ub |-> ub], ids, 1, decodes, env)

Batches == UNION { [1..n -> 0..Len(m_imageSequences)] : n \in 0..MaxBatch }

\* Undefined behaviour has a say only in the release flavor, and only when
\* the call meets an id past the end or a class past the label buffer.
MeetsUB(ids) ==
    /\ ndebug
    /\ \E i \in 1..Len(ids) :
         \/ ~(ids[i] < Len(m_imageSequences))
         \/ ~(m_imageSequences[ids[i] + 1].classId < Len(m_labelData))

Envs(ids) ==
    IF MeetsUB(ids)
    THEN [crash : BOOLEAN, garbage : Garbage]
    ELSE [crash : {FALSE}, garbage : {CHOOSE g \in Garbage : g.classId = 0}]

GetSequencesById ==
    /\ status = "ready"
    /\ \E ids \in Batches : \E decodes \in [1..Len(ids) -> BOOLEAN] : \E env \in Envs(ids) :
         \E run \in {GetSequencesByIdRun(ids, decodes, env)} :
             /\ status' = run.status
             /\ m_currentImages' = run.images
             /\ m_labelData' = run.labelData
             /\ ub' = run.ub
             /\ lastCall' = [op |-> "GetSequencesById", arg |-> ids,
                             returned |-> (run.status = "ready"),
                             value |-> IF run.status = "ready" THEN run.result ELSE << >>]
    /\ UNCHANGED <<evaluatorVars, ndebug, configHelper, labelDimension, mapFile, error, m_imageSequences, m_sequences>>

(***************************************************************************)
(* The chunk hooks and the epoch configuration.                            *)
(***************************************************************************)
ChunkIds == 0..Len(m_imageSequences)

EpochConfigurations == {0}

\* The mutation of RequireChunk that evicts the retained images and refuses a
\* chunk that is not in the timeline.
RequireChunk_Evicts ==
    /\ status = "ready"
    /\ \E chunkIndex \in ChunkIds :
         lastCall' = [op |-> "RequireChunk", arg |-> <<chunkIndex>>,
                      returned |-> TRUE, value |-> <<chunkIndex < Len(m_imageSequences)>>]
    /\ m_currentImages' = << >>
    /\ UNCHANGED <<evaluatorVars, ndebug, configHelper, labelDimension, mapFile, status, error, m_imageSequences,
                   m_sequences, m_labelData, ub>>

RequireChunk ==
    /\ status = "ready"
    /\ \E chunkIndex \in ChunkIds :
         lastCall' = [op |-> "RequireChunk", arg |-> <<chunkIndex>>,
                      returned |-> TRUE, value |-> <<TRUE>>]
    /\ UNCHANGED <<evaluatorVars, ndebug, configHelper, labelDimension, mapFile, status, error, members, ub>>

ReleaseChunk ==
    /\ status = "ready"
    /\ \E chunkIndex \in ChunkIds :
         lastCall' = [op |-> "ReleaseChunk", arg |-> <<chunkIndex>>,
                      returned |-> TRUE, value |-> << >>]
    /\ UNCHANGED <<evaluatorVars, ndebug, configHelper, labelDimension, mapFile, status, error, members, ub>>

SetEpochConfiguration ==
    /\ status = "ready"
    /\ \E config \in EpochConfigurations :
         lastCall' = [op |-> "SetEpochConfiguration", arg |-> <<config>>,
                      returned |-> TRUE, value |-> << >>]
    /\ UNCHANGED <<evaluatorVars, ndebug, configHelper, labelDimension, mapFile, status, error, members, ub>>

Next ==
    \/ ImageDataDeserializer
    \/ GetSequencesById
    \/ RequireChunk
    \/ ReleaseChunk
    \/ SetEpochConfiguration

Spec == Init /\ [][Next]_vars

(***************************************************************************)
(* SimpleEvaluator::Evaluate.                                              *)
(*                                                                         *)
(* The network has three nodes, known by their names: two criterion nodes  *)
(* of one element and a node of two elements.  Get00Element() of a         *)
(* criterion node after ForwardProp on a minibatch is modelled as the      *)
(* node's weight times the minibatch's samples with a label; the sums are  *)
(* kept as integers, and a quotient as the pair of its terms.              *)
(***************************************************************************)
NodeNames == {"ce", "err", "out"}

\* m_net->GetNodeFromName(name): names are the keys of the network's nodes.
GetNodeFromName(name) == [NodeName |-> name]

\* node->GetSampleLayout().GetNumElements()
GetNumElements(node) == IF node.NodeName = "out" THEN 2 ELSE 1

\* (double) node->Get00Element() after ForwardProp on a minibatch.
Get00Element(node, numSamplesWithLabel) ==
    (IF node.NodeName = "ce" THEN 1 ELSE 2) * numSamplesWithLabel

CriterionNodes == { GetNodeFromName(name) : name \in {"ce", "err"} }

NodeLists(n) == UNION { [1..k -> CriterionNodes] : k \in 0..n }

Networks == [EvaluationNodes : NodeLists(MaxDefaultNodes), FinalCriterionNodes : NodeLists(MaxDefaultNodes)]

NameLists == UNION { [1..k -> NodeNames] : k \in 1..MaxNames }

\* The membership test of the mutation below: nothing is ever found logged.
Logged_Never(node, criteriaLogged) == FALSE

\* !criteriaLogged.insert(node).second: the node was in the set already.
Logged(node, criteriaLogged) == node \in criteriaLogged

RECURSIVE PushDefault(_, _, _, _)
\* for (const auto& node : nodes) if (criteriaLogged.insert(node).second)
\*     evalNodes.push_back(node);   from position i on.
PushDefault(nodes, i, criteriaLogged, pushed) ==
    IF i > Len(nodes) THEN [criteriaLogged |-> criteriaLogged, evalNodes |-> pushed]
    ELSE IF Logged(nodes[i], criteriaLogged)
    THEN PushDefault(nodes, i + 1, criteriaLogged, pushed)
    ELSE PushDefault(nodes, i + 1, criteriaLogged \cup {nodes[i]}, Append(pushed, nodes[i]))

RECURSIVE PushNamed(_, _, _, _)
\* The loop over evalNodeNames, from position i (1-based) on: a node already
\* logged is skipped, a node of more than one element is InvalidArgument.
PushNamed(names, i, criteriaLogged, pushed) ==
    IF i > Len(names) THEN [ok |-> TRUE, evalNodes |-> pushed]
    ELSE LET node == GetNodeFromName(names[i])
         IN  IF Logged(node, criteriaLogged)
             THEN PushNamed(names, i + 1, criteriaLogged, pushed)
             ELSE IF GetNumElements(node) # 1
             THEN [ok |-> FALSE, evalNodes |-> pushed]
             ELSE PushNamed(names, i + 1, criteriaLogged \cup {node}, Append(pushed, node))

\* "determine nodes to evaluate".
DetermineNodes(names, net) ==
    IF Len(names) = 0
    THEN IF Len(net.EvaluationNodes) = 0 /\ Len(net.FinalCriterionNodes) = 0
         THEN [ok |-> FALSE, evalNodes |-> << >>]
         ELSE LET evaluation == PushDefault(net.EvaluationNodes, 1, {}, << >>)
                  criterion  == PushDefault(net.FinalCriterionNodes, 1,
                                            evaluation.criteriaLogged, evaluation.evalNodes)
              IN  [ok |-> TRUE, evalNodes |-> criterion.evalNodes]
    ELSE PushNamed(names, 1, {}, << >>)

\* The mutation of DisplayedRange that starts at the last minibatch shown.
DisplayedRange_FromLast(last, run) == <<last, run>>

\* The minibatch range of a progress display: lastMBsRun + 1, numMBsRun.
DisplayedRange(last, run) == <<last + 1, run>>

\* DisplayEvalStatistics(startMBNum, endMBNum, numSamplesLastMBs, evalNodes,
\* evalResults, evalResultsLastMBs, displayConvertedValue): the line written
\* to stderr; each eresult is the quotient of difference and samples.
DisplayEvalStatistics(range, samples, nodes, results, resultsLastMBs, displayConvertedValue) ==
    [startMBNum  |-> range[1],
     endMBNum    |-> range[2],
     SamplesSeen |-> samples,
     eresult     |-> [i \in 1..Len(results) |-> <<results[i] - resultsLastMBs[i], samples>>],
     final       |-> displayConvertedValue]

\* The state before Evaluate is called: a network, the evaluator's settings,
\* the names to evaluate; the deserializer plays no part.
InitEval ==
    /\ ndebug = FALSE
    /\ configHelper = ValidConfig
    /\ labelDimension = MaxLabelDim
    /\ mapFile = << >>
    /\ status = "unconstructed"
    /\ error = NoError
    /\ m_imageSequences = << >>
    /\ m_sequences = << >>
    /\ m_labelData = << >>
    /\ m_currentImages = << >>
    /\ lastCall = NoCall
    /\ ub = FALSE
    /\ pc = "idle"
    /\ \/ evalNodeNames = << >> /\ m_net \in Networks
       \/ evalNodeNames \in NameLists
          /\ m_net = [EvaluationNodes |-> << >>, FinalCriterionNodes |-> << >>]
    /\ m_numMBsToShowResult \in 0..MaxShow
    /\ m_traceLevel \in {0, 1}
    /\ evalNodes = << >>
    /\ evalResults = << >>
    /\ evalResultsLastMBs = << >>
    /\ totalEpochSamples = 0
    /\ numMBsRun = 0
    /\ numSamplesLastMBs = 0
    /\ lastMBsRun = 0
    /\ minibatches = << >>
    /\ displayed = << >>
    /\ returned = << >>

\* Evaluate up to the minibatch loop: the nodes to evaluate, the zeroed
\* results and counters.
EvaluateBegin ==
    /\ pc = "idle"
    /\ \E determined \in {DetermineNodes(evalNodeNames, m_net)} :
         /\ pc' = IF determined.ok THEN "loop" ELSE "failed"
         /\ evalNodes' = IF determined.ok THEN determined.evalNodes ELSE << >>
         /\ evalResults' = IF determined.ok THEN [i \in 1..Len(determined.evalNodes) |-> 0] ELSE << >>
         /\ evalResultsLastMBs' = evalResults'
    /\ UNCHANGED <<deserializerVars, m_net, m_numMBsToShowResult, m_traceLevel, evalNodeNames,
                   totalEpochSamples, numMBsRun, numSamplesLastMBs, lastMBsRun, minibatches,
                   displayed, returned>>

\* One pass of the while loop: GetMinibatchIntoNetwork delivers a minibatch of
\* numSamplesWithLabel labelled samples.  numMBsRun % m_numMBsToShowResult
\* with m_numMBsToShowResult = 0 is undefined: the process dies, or the
\* comparison comes out either way.
EvaluateMinibatch ==
    /\ pc = "loop"
    /\ numMBsRun < MaxMBs
    /\ \E numSamplesWithLabel \in 0..MaxSamples :
       \E divides \in (IF m_traceLevel > 0 /\ m_numMBsToShowResult = 0
                       THEN {"crash", "show", "skip"}
                       ELSE IF m_traceLevel > 0 /\ (numMBsRun + 1) % m_numMBsToShowResult = 0
                       THEN {"show"} ELSE {"skip"}) :
         LET results == [i \in 1..Len(evalNodes) |->
                           evalResults[i] + Get00Element(evalNodes[i], numSamplesWithLabel)]
             samples == numSamplesLastMBs + numSamplesWithLabel
         IN  /\ minibatches' = Append(minibatches, numSamplesWithLabel)
             /\ evalResults' = results
             /\ totalEpochSamples' = totalEpochSamples + numSamplesWithLabel
             /\ numMBsRun' = numMBsRun + 1
             /\ IF m_traceLevel > 0 /\ divides = "show"
                THEN /\ displayed' = Append(displayed,
                            DisplayEvalStatistics(DisplayedRange(lastMBsRun, numMBsRun + 1), samples,
                                                  evalNodes, results, evalResultsLastMBs, FALSE))
                     /\ evalResultsLastMBs' = results
                     /\ numSamplesLastMBs' = 0
                     /\ lastMBsRun' = numMBsRun + 1
                ELSE /\ numSamplesLastMBs' = IF m_traceLevel > 0 THEN samples ELSE numSamplesLastMBs
                     /\ UNCHANGED <<displayed, evalResultsLastMBs, lastMBsRun>>
             /\ pc' = IF divides = "crash" THEN "crashed" ELSE "loop"
    /\ UNCHANGED <<deserializerVars, m_net, m_numMBsToShowResult, m_traceLevel, evalNodeNames,
                   evalNodes, returned>>

\* GetMinibatchIntoNetwork returns false: the last batch of results is shown,
\* then the final statistics, and the results per sample are returned.
EvaluateEnd ==
    /\ pc = "loop"
    /\ LET zeroed == [i \in 1..Len(evalResultsLastMBs) |-> 0]
           last   == IF m_traceLevel > 0 /\ numSamplesLastMBs > 0
                     THEN <<DisplayEvalStatistics(DisplayedRange(lastMBsRun, numMBsRun),
                                                  numSamplesLastMBs, evalNodes, evalResults,
                                                  evalResultsLastMBs, FALSE)>>
                     ELSE << >>
       IN  /\ displayed' = displayed \o last \o
                  <<DisplayEvalStatistics(<<1, numMBsRun>>, totalEpochSamples, evalNodes,
                                          evalResults, zeroed, TRUE)>>
           /\ evalResultsLastMBs' = zeroed
           /\ returned' = [i \in 1..Len(evalResults) |-> <<evalResults[i], totalEpochSamples>>]
    /\ pc' = "done"
    /\ UNCHANGED <<deserializerVars, m_net, m_numMBsToShowResult, m_traceLevel, evalNodeNames,
                   evalNodes, evalResults, totalEpochSamples, numMBsRun, numSamplesLastMBs,
                   lastMBsRun, minibatches>>

NextEval ==
    \/ EvaluateBegin
    \/ EvaluateMinibatch
    \/ EvaluateEnd

SpecEval == InitEval /\ [][NextEval]_vars

(***************************************************************************)
(* The vocabulary of the properties.                                       *)
(***************************************************************************)
RECURSIVE SplitTabs(_)
\* The tab-delimited fields of a line; the empty line has none.
SplitTabs(line) ==
    IF Len(line) = 0 THEN << >>
    ELSE LET tabs == { k \in 1..Len(line) : line[k] = TAB }
         IN  IF tabs = {} THEN <<line>>
             ELSE LET k == CHOOSE t \in tabs : \A u \in tabs : t <= u
                  IN  <<SubSeq(line, 1, k - 1)>> \o
                      (IF k = Len(line) THEN << << >> >> ELSE SplitTabs(SubSeq(line, k + 1, Len(line))))

\* The decimal text of a class id below ten.
ClassText(c) == <<Digits[c + 1]>>

\* A row as the map file format wants it: a path and the text of a class id
\* below the label dimension.
WellFormedRow(line) ==
    /\ Len(SplitTabs(line)) = 2
    /\ \E c \in 0..(labelDimension - 1) : SplitTabs(line)[2] = ClassText(c)

WellFormedMapFile == \A n \in 1..Len(mapFile) : WellFormedRow(mapFile[n])

\* The class id a well-formed row names.
ClassOfRow(line) == CHOOSE c \in 0..(labelDimension - 1) : SplitTabs(line)[2] = ClassText(c)

\* What a pointer handed to the caller reads as: the generator's buffer as it
\* is now.
ReadLabel(data) == IF data = LabelAddr THEN m_labelData ELSE << >>

\* The retained image whose pixels lie at address data.
RetainedAt(data) == { i \in 1..Len(m_currentImages) : m_currentImages[i].data = data }

Returned(op) == lastCall.op = op /\ lastCall.returned

\* The ids of the last call all lie in the timeline.
IdsInRange == \A i \in 1..Len(lastCall.arg) : lastCall.arg[i] < Len(m_imageSequences)

\* The description of the id at position i of the last call.
DescriptionOf(i) == m_imageSequences[lastCall.arg[i] + 1]

\* The constructor has returned: a deserializer, and its label generator, exist.
Constructed == lastCall.op # "none" /\ (lastCall.op = "ImageDataDeserializer" => lastCall.returned)

\* The configuration names two streams, a label stream of a supported element
\* type and a map file that can be opened.
ConfigIsValid ==
    /\ configHelper.inputs = 2
    /\ configHelper.labelElementType \in {"et_float", "et_double"}
    /\ configHelper.mapFileOpens

HookOps == {"RequireChunk", "ReleaseChunk", "SetEpochConfiguration"}

(***************************************************************************)
(* The properties.                                                         *)
(***************************************************************************)
\* C1: under a valid configuration, when GetSequencesById returns for ids that
\* lie in the timeline and whose classes lie in the label buffer, the label payload of the pair at
\* every position i reads as the one-hot encoding of the class of ids[i].
C1_LabelsReadOneHot ==
    (/\ ConfigIsValid
     /\ Returned("GetSequencesById")
     /\ IdsInRange
     /\ \A i \in 1..Len(lastCall.arg) : DescriptionOf(i).classId < labelDimension)
    => \A i \in 1..Len(lastCall.value) :
         LET buffer == ReadLabel(lastCall.value[i][2].data)
         IN  /\ Len(buffer) = labelDimension
             /\ \A k \in 1..Len(buffer) :
                  buffer[k] = IF k = DescriptionOf(i).classId + 1 THEN 1 ELSE 0

\* C2: in every state the generator exists in, its buffer has length
\* labelDimension, and GetLabelDataFor(classId), for every classId below
\* labelDimension, leaves the buffer with that length, 1 at classId and 0
\* everywhere else; after a returned GetSequencesById whose last id names a
\* class below labelDimension the buffer is the one-hot encoding of that class.
C2_OneHotNoStale ==
    Constructed =>
      /\ Len(m_labelData) = labelDimension
      /\ \A classId \in 0..(labelDimension - 1) :
           LET after == GetLabelDataFor(m_labelData, classId)
           IN  /\ Len(after) = labelDimension
               /\ after[classId + 1] = 1
               /\ \A k \in 1..Len(after) : k # classId + 1 => after[k] = 0
      /\ (/\ Returned("GetSequencesById")
          /\ Len(lastCall.arg) > 0
          /\ IdsInRange
          /\ DescriptionOf(Len(lastCall.arg)).classId < labelDimension)
         => \A k \in 1..labelDimension :
              m_labelData[k] = IF k = DescriptionOf(Len(lastCall.arg)).classId + 1 THEN 1 ELSE 0

\* C2's case: a batch of two ids of different classes, both below
\* labelDimension, has been materialized: the second call to GetLabelDataFor
\* found the 1 of the first in the buffer.
C2_Witness ==
    /\ Returned("GetSequencesById")
    /\ Len(lastCall.arg) = 2
    /\ IdsInRange
    /\ DescriptionOf(1).classId < labelDimension
    /\ DescriptionOf(2).classId < labelDimension
    /\ DescriptionOf(1).classId # DescriptionOf(2).classId

\* C3: for a map file of N well-formed rows, in every state after construction
\* the constructor has not failed and the timeline has exactly N entries, entry
\* i with id = i, chunkId = i, the path and class of row i, numberOfSamples = 1
\* and isValid = true.
C3_TimelineIsTheMapFile ==
    (ConfigIsValid /\ WellFormedMapFile /\ status # "unconstructed") =>
      /\ status # "failed"
      /\ error = NoError
      /\ lastCall.op = "ImageDataDeserializer" => status = "ready"
      /\ Len(GetSequenceDescriptions) = Len(mapFile)
      /\ \A n \in 1..Len(mapFile) :
           GetSequenceDescriptions[n] =
             [id              |-> n - 1,
              chunkId         |-> n - 1,
              path            |-> SplitTabs(mapFile[n])[1],
              classId         |-> ClassOfRow(mapFile[n]),
              numberOfSamples |-> 1,
              isValid         |-> TRUE]

\* C3's case: a well-formed map file of two rows, after a GetSequencesById
\* that returned a pair.
C3_Witness ==
    /\ ConfigIsValid
    /\ WellFormedMapFile
    /\ Len(mapFile) = 2
    /\ Returned("GetSequencesById")
    /\ Len(lastCall.value) > 0

\* C4: a GetSequencesById that returns for a non-empty list of ids of the
\* timeline returns one pair per id, in the order of the ids: the feature and
\* the label payload of pair i carry the numberOfSamples of the description of
\* ids[i], and the pixels the feature payload points at are those decoded
\* from that description's path.
C4_OnePairPerId ==
    (Returned("GetSequencesById") /\ Len(lastCall.arg) > 0 /\ IdsInRange) =>
      /\ Len(lastCall.value) = Len(lastCall.arg)
      /\ \A i \in 1..Len(lastCall.value) :
           LET feature == lastCall.value[i][1]
               label   == lastCall.value[i][2]
           IN  /\ feature.numberOfSamples = DescriptionOf(i).numberOfSamples
               /\ label.numberOfSamples = DescriptionOf(i).numberOfSamples
               /\ feature.numberOfSamples = 1
               /\ label.data = LabelAddr
               /\ feature.data # NULL =>
                    /\ RetainedAt(feature.data) # {}
                    /\ \A j \in RetainedAt(feature.data) :
                         m_currentImages[j].pixels = <<DescriptionOf(i).path>>

\* C4's case: a batch of two ids in descending order, of rows with different
\* paths, both decoded.
C4_Witness ==
    /\ Returned("GetSequencesById")
    /\ Len(lastCall.arg) = 2
    /\ IdsInRange
    /\ lastCall.arg[1] > lastCall.arg[2]
    /\ DescriptionOf(1).path # DescriptionOf(2).path
    /\ lastCall.value[1][1].data # NULL
    /\ lastCall.value[2][1].data # NULL

\* C5: under a valid configuration, after a GetSequencesById that returned for
\* ids of the timeline, the
\* deserializer retains one image per id of that call and no other, and the
\* feature payload of every returned pair points at the buffer of the retained
\* image of its position.
C5_RetainedIsLatestBatch ==
    (ConfigIsValid /\ Returned("GetSequencesById") /\ IdsInRange) =>
      /\ Len(m_currentImages) = Len(lastCall.arg)
      /\ \A i \in 1..Len(lastCall.value) :
           /\ lastCall.value[i][1].data # NULL
           /\ lastCall.value[i][1].data = m_currentImages[i].data

\* C6: under a valid configuration, a map file line that does not split into exactly two tab-delimited
\* fields is a fatal format error: no timeline is ever built from a map file
\* that holds such a line.
C6_ExactlyTwoFields ==
    (ConfigIsValid /\ \E n \in 1..Len(mapFile) : Len(SplitTabs(mapFile[n])) # 2)
    => Len(m_sequences) = 0

\* C7: under a valid configuration, every description of the timeline has a
\* classId below labelDimension.
C7_ClassIdBelowDimension ==
    ConfigIsValid => \A n \in 1..Len(m_sequences) : GetSequenceDescriptions[n].classId < labelDimension

\* C8: under a valid configuration, when the map file holds a malformed row, construction ends at the
\* first such row with an error that names the map file's path and the row's
\* 0-based line index, and no timeline is built.
C8_AbortNamesFirstMalformedRow ==
    LET malformed == { n \in 1..Len(mapFile) : ~WellFormedRow(mapFile[n]) }
    IN  (ConfigIsValid /\ malformed # {} /\ status # "unconstructed") =>
          /\ Len(m_sequences) = 0
          /\ error.path = MapPath
          /\ \A n \in malformed : (\A m \in malformed : n <= m) => error.line = n - 1

\* C9: under a valid configuration, GetSequencesById, called for ids of the
\* timeline, never returns a pair
\* whose feature payload was not decoded: a path that cannot be decoded ends
\* the call without a return.
C9_NoUndecodedPayload ==
    (ConfigIsValid /\ Returned("GetSequencesById") /\ IdsInRange) =>
      \A i \in 1..Len(lastCall.value) : lastCall.value[i][1].data # NULL

\* C10: RequireChunk returns true for every chunk id, and no call of
\* RequireChunk, ReleaseChunk or SetEpochConfiguration changes the timeline,
\* the retained images, the label buffer or the state of the deserializer.
C10_HooksChangeNothing ==
    [][lastCall'.op \in HookOps =>
         /\ members' = members
         /\ status' = status
         /\ ub' = ub
         /\ lastCall'.returned
         /\ lastCall'.op = "RequireChunk" => lastCall'.value = <<TRUE>>]_vars

\* C10's case: RequireChunk has returned for a chunk id that is not in the
\* timeline while images of an earlier batch were retained.
C10_Witness ==
    /\ Returned("RequireChunk")
    /\ lastCall.arg = <<Len(m_imageSequences)>>
    /\ lastCall.value = <<TRUE>>
    /\ Len(m_currentImages) > 0

\* C11: when the configuration is invalid (a number of declared streams other
\* than two, a label stream that is neither et_float nor et_double, a map file
\* that cannot be opened), construction ends in a fatal error and builds no
\* timeline: no deserializer is ever ready.  (Runs in which a stream was read
\* past the end of inputs are left aside, and the death of the process counts
\* as fatal.)
C11_InvalidConfigIsFatal ==
    (~ConfigIsValid /\ status # "unconstructed" /\ ~ub) =>
      /\ status \in {"failed", "aborted", "crashed"}
      /\ Len(m_imageSequences) = 0
      /\ Len(m_sequences) = 0

\* C12: under a valid configuration, GetSequencesById never returns when one
\* of its ids is at or past the length of the timeline.
C12_OutOfRangeIdIsFatal ==
    (ConfigIsValid /\ Returned("GetSequencesById")) => IdsInRange

(***************************************************************************)
(* The vocabulary of the evaluator's properties.                           *)
(***************************************************************************)
\* The nodes Evaluate is asked for, repetitions included, in order.
RequestedNodes ==
    IF Len(evalNodeNames) = 0
    THEN m_net.EvaluationNodes \o m_net.FinalCriterionNodes
    ELSE [i \in 1..Len(evalNodeNames) |-> GetNodeFromName(evalNodeNames[i])]

FirstOccurrence(node, nodes) ==
    CHOOSE i \in 1..Len(nodes) : nodes[i] = node /\ \A j \in 1..(i - 1) : nodes[j] # node

RECURSIVE SumSeq(_)
SumSeq(q) == IF Len(q) = 0 THEN 0 ELSE q[1] + SumSeq(Tail(q))

\* The criterion of a node summed once over the minibatches delivered so far.
AccumulatedOnce(node) ==
    SumSeq([k \in 1..Len(minibatches) |-> Get00Element(node, minibatches[k])])

PastNodeDetermination == pc \in {"loop", "done", "crashed"}

\* The displays before the final summary of a finished evaluation.
ProgressDisplays == SubSeq(displayed, 1, Len(displayed) - 1)

Tracing == m_traceLevel > 0 /\ m_numMBsToShowResult > 0

\* The last minibatch a progress display reports.
LastReported ==
    IF Len(ProgressDisplays) = 0 THEN 0 ELSE ProgressDisplays[Len(ProgressDisplays)].endMBNum

RangesConsecutive ==
    /\ Len(ProgressDisplays) > 0 => ProgressDisplays[1].startMBNum = 1
    /\ \A k \in 1..Len(ProgressDisplays) :
         /\ ProgressDisplays[k].startMBNum <= ProgressDisplays[k].endMBNum
         /\ k > 1 => ProgressDisplays[k].startMBNum = ProgressDisplays[k - 1].endMBNum + 1

SamplesSeenSum ==
    SumSeq([k \in 1..Len(ProgressDisplays) |-> ProgressDisplays[k].SamplesSeen])

\* C13: once Evaluate is past the determination of its nodes, the nodes it
\* accumulates are the distinct requested nodes, one entry each, in the order
\* of their first occurrence, whether requested by names that repeat or by
\* the network's EvaluationNodes followed by its FinalCriterionNodes; there is
\* one result per node, each the node's criterion accumulated once over the
\* minibatches, and the returned vector has one entry per node.
C13_EachDistinctNodeOnce ==
    PastNodeDetermination =>
      /\ \A i, j \in 1..Len(evalNodes) : evalNodes[i] = evalNodes[j] => i = j
      /\ { evalNodes[i] : i \in 1..Len(evalNodes) }
           = { RequestedNodes[i] : i \in 1..Len(RequestedNodes) }
      /\ \A i, j \in 1..Len(evalNodes) :
           i < j => FirstOccurrence(evalNodes[i], RequestedNodes)
                      < FirstOccurrence(evalNodes[j], RequestedNodes)
      /\ Len(evalResults) = Len(evalNodes)
      /\ \A i \in 1..Len(evalNodes) : evalResults[i] = AccumulatedOnce(evalNodes[i])
      /\ pc = "done" =>
           /\ Len(returned) = Len(evalNodes)
           /\ \A i \in 1..Len(evalNodes) :
                returned[i] = <<AccumulatedOnce(evalNodes[i]), totalEpochSamples>>

\* An evaluation that finished over minibatches with labelled samples, for
\* nodes requested more than once.
C13_Witness ==
    /\ pc = "done"
    /\ Len(RequestedNodes) > Len(evalNodes)
    /\ Len(evalNodes) = 2
    /\ totalEpochSamples > 1

\* C14, as stated: with traceLevel > 0 and numMBsToShowResult > 0, the
\* progress displays before the final summary of a finished evaluation report
\* ranges that are consecutive, do not overlap and cover every minibatch
\* 1..numMBsRun, and their SamplesSeen sum to totalEpochSamples.
C14_RangesCoverEveryMinibatch ==
    (pc = "done" /\ Tracing) =>
      /\ RangesConsecutive
      /\ LastReported = numMBsRun
      /\ SamplesSeenSum = totalEpochSamples

\* C14, amended: with traceLevel > 0 and numMBsToShowResult > 0, the progress
\* displays before the final summary of a finished evaluation report ranges
\* that start at minibatch 1, are consecutive and do not overlap, and their
\* SamplesSeen sum to totalEpochSamples; they cover every minibatch up to
\* numMBsRun except a tail of minibatches after the last periodic display
\* that together carry no sample with a label, which no display reports.
C14_RangesCoverAllButSamplelessTail ==
    (pc = "done" /\ Tracing) =>
      /\ RangesConsecutive
      /\ LastReported <= numMBsRun
      /\ LastReported = numMBsRun
           <=> (lastMBsRun = numMBsRun
                  \/ \E k \in (lastMBsRun + 1)..numMBsRun : minibatches[k] > 0)
      /\ \A k \in (LastReported + 1)..numMBsRun : minibatches[k] = 0
      /\ SamplesSeenSum = totalEpochSamples

\* A finished evaluation with a periodic display, a trailing display and the
\* final summary.
C14_Witness ==
    /\ pc = "done"
    /\ Tracing
    /\ m_numMBsToShowResult = 2
    /\ numMBsRun = 3
    /\ Len(displayed) = 3
    /\ ProgressDisplays[2].startMBNum = 3

====
